---- MODULE Spec2Model ----
(***************************************************************************)
(* Model of generate_cards.py: the three card render functions             *)
(* (create_card, create_card_back, create_instruction_card) as a           *)
(* step-by-step state machine (Spec), and the batch driver process_csv     *)
(* with its worker pool (SpecCsv).                                         *)
(*                                                                         *)
(* A text is a sequence of one-character strings.  The font file and the   *)
(* QR image are the environment: which glyph metrics the font has, whether *)
(* loading it raises, whether the QR image opens, whether the output path  *)
(* is writable.                                                            *)
(***************************************************************************)
EXTENDS Integers, Sequences, FiniteSets, TLC

\* ---------------------------------------------------------------- bounds
MaxLen == 6
MaxRows == 3
MaxWorkers == 2

\* ------------------------------------------------------- layout constants
DPI == 1200
CARD_WIDTH == 825
CARD_HEIGHT == 1125
MARGIN == 100
TEXT_BOX_WIDTH == CARD_WIDTH - (2 * MARGIN)
TEXT_BOX_TOP == 120
FONT_SIZE_MAIN == 72
FONT_SIZE_NUMBER == 48
MAIN_FONT == "Bitter-Bold.ttf"
PROMPT_BG_COLOR == <<0, 0, 0>>
PROMPT_TEXT_COLOR == <<255, 255, 255>>
RESPONSE_BG_COLOR == <<255, 255, 255>>
RESPONSE_TEXT_COLOR == <<0, 0, 0>>
larger_font_size == 96
TITLE_FONT_SIZE == 84
URL_FONT_SIZE == 48

\* ------------------------------------------------------------ environment
\* The characters texts are drawn from; " " is the only whitespace.
Chars == {"a", "W", " "}

\* Glyph advances (pixels at size 72) of the font files the name MAIN_FONT
\* may resolve to, and of the built-in default font (which has one size).
Faces == {1, 2}

FaceAdvance(face, c) ==
    IF face = 1
    THEN (IF c = " " THEN 50 ELSE IF c = "W" THEN 650 ELSE 200)
    ELSE (IF c = " " THEN 100 ELSE IF c = "W" THEN 960 ELSE 300)

DefaultAdvance(c) == IF c = " " THEN 60 ELSE IF c = "W" THEN 220 ELSE 120

RECURSIVE SeqsUpTo(_, _)
SeqsUpTo(S, n) ==
    IF n = 0 THEN {<<>>}
    ELSE LET shorter == SeqsUpTo(S, n - 1)
         IN  shorter \cup {Append(s, c) : s \in shorter, c \in S}

Texts == SeqsUpTo(Chars, MaxLen)
CardNumbers == {<<>>, <<"a">>}

\* ---------------------------------------------------------- PIL, builtins
\* ImageFont.truetype(MAIN_FONT, size) and ImageFont.load_default()
Truetype(face, size) == [kind |-> "truetype", face |-> face, size |-> size]
LoadDefault == [kind |-> "default", face |-> 0, size |-> 0]
NoFont == [kind |-> "unbound", face |-> 0, size |-> 0]

Advance(font, c) ==
    IF font.kind = "default" THEN DefaultAdvance(c)
    ELSE (FaceAdvance(font.face, c) * font.size) \div 72

\* bbox = draw.textbbox((0, 0), s, font); bbox[2] - bbox[0]
RECURSIVE TextWidth(_, _)
TextWidth(s, font) ==
    IF s = <<>> THEN 0 ELSE Advance(font, Head(s)) + TextWidth(Tail(s), font)

\* str.split() with no argument: maximal runs of non-whitespace
RECURSIVE SplitAcc(_, _, _)
SplitAcc(s, cur, acc) ==
    IF s = <<>> THEN (IF cur = <<>> THEN acc ELSE Append(acc, cur))
    ELSE IF Head(s) = " "
         THEN SplitAcc(Tail(s), <<>>, IF cur = <<>> THEN acc ELSE Append(acc, cur))
         ELSE SplitAcc(Tail(s), Append(cur, Head(s)), acc)

Split(s) == SplitAcc(s, <<>>, <<>>)

\* ' '.join(ws)
RECURSIVE Join(_)
Join(ws) ==
    IF ws = <<>> THEN <<>>
    ELSE IF Len(ws) = 1 THEN ws[1]
    ELSE ws[1] \o <<" ">> \o Join(Tail(ws))

\* ------------------------------------------------------------------ state
VARIABLES
    fn,             \* the render function running (Spec); "process_csv" (SpecCsv)
    pc,             \* its position
    text,           \* create_card: text; create_instruction_card: url
    card_number,
    bg_color,
    text_color,
    face,           \* environment: the glyph metrics of the font file
    font_fail,      \* environment: 0, or k when the k-th truetype call raises OSError
    fonts,          \* the function's font locals, by name
    words,
    lines,
    current_line,
    idx,            \* position of the for loop in words / url
    qr_size,
    qr_size_bound,  \* whether the local qr_size has been assigned
    qr_y,
    pasted,         \* the QR image has been pasted onto the card
    url_width,
    drawn,          \* draw.text calls so far, in order
    log,            \* lines printed
    saved,          \* the image written by image.save, or <<>>
    err,            \* the exception the function ended with, or "none"
    table,          \* process_csv: the rows of the CSV file, header first
    rows,           \* process_csv: rows after the header
    task,           \* process_csv: state of each row's process_row call
    image,          \* process_csv: the image each running task holds
    files,          \* process_csv: the files written, by path
    writes,         \* process_csv: the file writes of each task, in order
    workers         \* process_csv: the size of the pool (the host's cores)

renderVars == <<fn, pc, text, card_number, bg_color, text_color, face, font_fail,
                fonts, words, lines, current_line, idx, qr_size, qr_size_bound,
                qr_y, pasted, url_width, drawn, log, saved, err>>
csvVars == <<table, rows, task, image, files, writes, workers>>
vars == <<renderVars, csvVars>>

\* ------------------------------------------------------------ font loading
FontNames(f) ==
    IF f = "create_card" THEN <<"main_font", "number_font">>
    ELSE IF f = "create_card_back" THEN <<"main_font">>
    ELSE <<"title_font", "url_font">>

FontSize(name, f) ==
    IF name = "number_font" THEN FONT_SIZE_NUMBER
    ELSE IF name = "title_font" THEN TITLE_FONT_SIZE
    ELSE IF name = "url_font" THEN URL_FONT_SIZE
    ELSE IF f = "create_card_back" THEN larger_font_size
    ELSE FONT_SIZE_MAIN

FontMessage(f) ==
    IF f = "create_instruction_card"
    THEN "Bitter-Bold.ttf not found. Using default font."
    ELSE "Arial Bold.ttf not found. Using default font."

\* Mutant of FontsLoaded: the except branch replaces only the first font and
\* leaves the others as the try block left them.
FontsLoadedOnlyFirst(f, fc, fail) ==
    [n \in {FontNames(f)[k] : k \in 1..Len(FontNames(f))} |->
        IF fail \in 1..Len(FontNames(f))
        THEN (IF n = FontNames(f)[1] THEN LoadDefault
              ELSE IF fail = 1 THEN NoFont ELSE Truetype(fc, FontSize(n, f)))
        ELSE Truetype(fc, FontSize(n, f))]

\* try: <name> = ImageFont.truetype(...) for each font; except OSError: every
\* font of the function = ImageFont.load_default()
FontsLoaded(f, fc, fail) ==
    IF fail \in 1..Len(FontNames(f))
    THEN [n \in {FontNames(f)[k] : k \in 1..Len(FontNames(f))} |-> LoadDefault]
    ELSE [n \in {FontNames(f)[k] : k \in 1..Len(FontNames(f))} |->
              Truetype(fc, FontSize(n, f))]

FontLog(f, fail) ==
    IF fail \in 1..Len(FontNames(f)) THEN <<FontMessage(f)>> ELSE <<>>

\* ------------------------------------------------------------- word wrap
\* Mutants of WrapStep: the rejected word is dropped instead of starting the
\* next line; only the new word is measured, not the candidate line; the
\* candidate line is measured against a budget one margin too narrow.
WrapStepDropsWord(st, word, font) ==
    LET test_line == Join(Append(st.current_line, word))
    IN  IF TextWidth(test_line, font) <= TEXT_BOX_WIDTH
        THEN [lines |-> st.lines, current_line |-> Append(st.current_line, word)]
        ELSE [lines |-> IF st.current_line # <<>>
                        THEN Append(st.lines, Join(st.current_line))
                        ELSE st.lines,
              current_line |-> <<>>]

WrapStepMeasuresWord(st, word, font) ==
    IF TextWidth(word, font) <= TEXT_BOX_WIDTH
    THEN [lines |-> st.lines, current_line |-> Append(st.current_line, word)]
    ELSE [lines |-> IF st.current_line # <<>>
                    THEN Append(st.lines, Join(st.current_line))
                    ELSE st.lines,
          current_line |-> <<word>>]

WrapStepNarrow(st, word, font) ==
    LET test_line == Join(Append(st.current_line, word))
    IN  IF TextWidth(test_line, font) <= TEXT_BOX_WIDTH - MARGIN
        THEN [lines |-> st.lines, current_line |-> Append(st.current_line, word)]
        ELSE [lines |-> IF st.current_line # <<>>
                        THEN Append(st.lines, Join(st.current_line))
                        ELSE st.lines,
              current_line |-> <<word>>]

\* One iteration of "for word in words" (lines 55-63), on [lines, current_line]
WrapStep(st, word, font) ==
    LET test_line == Join(Append(st.current_line, word))
    IN  IF TextWidth(test_line, font) <= TEXT_BOX_WIDTH
        THEN [lines |-> st.lines, current_line |-> Append(st.current_line, word)]
        ELSE [lines |-> IF st.current_line # <<>>
                        THEN Append(st.lines, Join(st.current_line))
                        ELSE st.lines,
              current_line |-> <<word>>]

\* Mutants of WrapFinish: the open line is never closed; the open line is
\* closed even when it is empty.
WrapFinishNoFlush(st) == st.lines

WrapFinishAlways(st) == Append(st.lines, Join(st.current_line))

\* "if current_line: lines.append(' '.join(current_line))" (lines 65-66)
WrapFinish(st) ==
    IF st.current_line # <<>> THEN Append(st.lines, Join(st.current_line))
    ELSE st.lines

\* Mutant of CharWrapStep: the character that did not fit is dropped.
CharWrapStepDropsChar(st, char, font) ==
    LET test_line == Append(st.current_line, char)
    IN  IF TextWidth(test_line, font) <= TEXT_BOX_WIDTH
        THEN [lines |-> st.lines, current_line |-> test_line]
        ELSE [lines |-> IF st.current_line # <<>>
                        THEN Append(st.lines, st.current_line)
                        ELSE st.lines,
              current_line |-> <<>>]

\* One iteration of "for char in url" (lines 173-181)
CharWrapStep(st, char, font) ==
    LET test_line == Append(st.current_line, char)
    IN  IF TextWidth(test_line, font) <= TEXT_BOX_WIDTH
        THEN [lines |-> st.lines, current_line |-> test_line]
        ELSE [lines |-> IF st.current_line # <<>>
                        THEN Append(st.lines, st.current_line)
                        ELSE st.lines,
              current_line |-> <<char>>]

\* "if current_line: lines.append(current_line)" (lines 183-184)
CharWrapFinish(st) ==
    IF st.current_line # <<>> THEN Append(st.lines, st.current_line)
    ELSE st.lines

\* int(size * 1.4) and int(size * 1.2)
LineHeight14(size) == (size * 14) \div 10
LineHeight12(size) == (size * 12) \div 10

\* The draw.text calls of "for line in lines" (lines 72-74, 108-110)
DrawLinesAt(ls, font, fill, line_height) ==
    [i \in 1..Len(ls) |->
        [x |-> MARGIN, y |-> TEXT_BOX_TOP + (i - 1) * line_height,
         s |-> ls[i], font |-> font, fill |-> fill]]

\* The card number in the bottom right corner (lines 77-81)
DrawNumberAt(number, font, fill) ==
    [x |-> CARD_WIDTH - TextWidth(number, font) - MARGIN,
     y |-> CARD_HEIGHT - MARGIN - FONT_SIZE_NUMBER,
     s |-> number, font |-> font, fill |-> fill]

\* What image.save writes: the background, the pasted QR code, the text drawn
ImageOf(bg, qr, dr) == [bg |-> bg, qr |-> qr, drawn |-> dr, dpi |-> <<DPI, DPI>>]

\* --------------------------------------------------- the render functions
RenderFns == {"create_card", "create_card_back", "create_instruction_card"}

Gameplay == <<"G", "a", "m", "e", "p", "l", "a", "y">>
Instructions == <<"I", "n", "s", "t", "r", "u", "c", "t", "i", "o", "n", "s">>

CsvIdle ==
    /\ table = <<>> /\ rows = <<>> /\ task = <<>>
    /\ image = <<>> /\ files = <<>> /\ writes = <<>> /\ workers = 0

\* The state at the call: Image.new and ImageDraw.Draw done, nothing drawn
Init ==
    /\ fn \in RenderFns
    /\ pc = "fonts"
    /\ text \in (IF fn = "create_card_back" THEN {<<>>} ELSE Texts)
    /\ card_number \in (IF fn = "create_card" THEN CardNumbers ELSE {<<>>})
    /\ bg_color \in (IF fn = "create_card" THEN {PROMPT_BG_COLOR, RESPONSE_BG_COLOR}
                     ELSE IF fn = "create_card_back" THEN {PROMPT_BG_COLOR}
                     ELSE {RESPONSE_BG_COLOR})
    /\ text_color = (IF bg_color = PROMPT_BG_COLOR THEN PROMPT_TEXT_COLOR
                     ELSE RESPONSE_TEXT_COLOR)
    /\ face \in Faces
    /\ font_fail \in 0..Len(FontNames(fn))
    /\ fonts = [n \in {FontNames(fn)[k] : k \in 1..Len(FontNames(fn))} |-> NoFont]
    /\ words = <<>> /\ lines = <<>> /\ current_line = <<>> /\ idx = 0
    /\ qr_size = 0 /\ qr_size_bound = FALSE /\ qr_y = 0 /\ pasted = FALSE
    /\ url_width = 0
    /\ drawn = <<>> /\ log = <<>> /\ saved = <<>> /\ err = "none"
    /\ CsvIdle

\* lines 42-48, 95-99, 121-128
LoadFonts ==
    /\ pc = "fonts"
    /\ fonts' = FontsLoaded(fn, face, font_fail)
    /\ log' = log \o FontLog(fn, font_fail)
    /\ pc' = (IF fn = "create_card" THEN "split"
              ELSE IF fn = "create_card_back" THEN "draw" ELSE "qr")
    /\ lines' = (IF fn = "create_card_back" THEN <<"What Could", "Go Wrong?">> ELSE lines)
    /\ UNCHANGED <<fn, text, card_number, bg_color, text_color, face, font_fail,
                   words, current_line, idx, qr_size, qr_size_bound, qr_y, pasted,
                   url_width, drawn, saved, err, csvVars>>

\* lines 51-53
SplitText ==
    /\ pc = "split"
    /\ words' = Split(text)
    /\ lines' = <<>>
    /\ current_line' = <<>>
    /\ idx' = 1
    /\ pc' = "wrap"
    /\ UNCHANGED <<fn, text, card_number, bg_color, text_color, face, font_fail,
                   fonts, qr_size, qr_size_bound, qr_y, pasted, url_width, drawn,
                   log, saved, err, csvVars>>

\* lines 55-63: one iteration of the loop over words
WrapWord ==
    /\ pc = "wrap"
    /\ idx <= Len(words)
    /\ LET st == WrapStep([lines |-> lines, current_line |-> current_line],
                          words[idx], fonts["main_font"])
       IN  /\ lines' = st.lines
           /\ current_line' = st.current_line
    /\ idx' = idx + 1
    /\ UNCHANGED <<fn, pc, text, card_number, bg_color, text_color, face, font_fail,
                   fonts, words, qr_size, qr_size_bound, qr_y, pasted, url_width,
                   drawn, log, saved, err, csvVars>>

\* lines 65-66: after the loop
WrapFlush ==
    /\ pc = "wrap"
    /\ idx > Len(words)
    /\ lines' = WrapFinish([lines |-> lines, current_line |-> current_line])
    /\ pc' = "draw"
    /\ UNCHANGED <<fn, text, card_number, bg_color, text_color, face, font_fail,
                   fonts, words, current_line, idx, qr_size, qr_size_bound, qr_y,
                   pasted, url_width, drawn, log, saved, err, csvVars>>

\* lines 69-74 (create_card), 105-110 (create_card_back)
DrawLines ==
    /\ pc = "draw"
    /\ drawn' = drawn \o DrawLinesAt(lines, fonts["main_font"], text_color,
                    LineHeight14(IF fn = "create_card_back" THEN larger_font_size
                                 ELSE FONT_SIZE_MAIN))
    /\ pc' = (IF fn = "create_card" THEN "number" ELSE "save")
    /\ UNCHANGED <<fn, text, card_number, bg_color, text_color, face, font_fail,
                   fonts, words, lines, current_line, idx, qr_size, qr_size_bound,
                   qr_y, pasted, url_width, log, saved, err, csvVars>>

\* lines 77-81
DrawNumber ==
    /\ pc = "number"
    /\ drawn' = Append(drawn, DrawNumberAt(card_number, fonts["number_font"], text_color))
    /\ pc' = "save"
    /\ UNCHANGED <<fn, text, card_number, bg_color, text_color, face, font_fail,
                   fonts, words, lines, current_line, idx, qr_size, qr_size_bound,
                   qr_y, pasted, url_width, log, saved, err, csvVars>>

\* lines 84, 113, 200: image.save; an unwritable output path raises OSError
Save ==
    /\ pc = "save"
    /\ \E writable \in BOOLEAN :
          IF writable
          THEN /\ saved' = <<ImageOf(bg_color, pasted, drawn)>>
               /\ pc' = "done"
               /\ err' = err
          ELSE /\ saved' = saved
               /\ pc' = "error"
               /\ err' = "OSError"
    /\ UNCHANGED <<fn, text, card_number, bg_color, text_color, face, font_fail,
                   fonts, words, lines, current_line, idx, qr_size, qr_size_bound,
                   qr_y, pasted, url_width, drawn, log, csvVars>>

\* The ways the try block of lines 131-142 can end
QrOutcomes == {"ok", "open_raises", "resize_raises", "paste_raises"}

\* int(CARD_WIDTH * 0.4)
QrSize == (CARD_WIDTH * 4) \div 10

\* lines 130-146: Image.open, qr_size, resize, qr_x/qr_y, paste; any exception
\* is printed and swallowed
LoadQR ==
    /\ pc = "qr"
    /\ \E outcome \in QrOutcomes :
          /\ qr_size_bound' = (outcome # "open_raises")
          /\ qr_size' = (IF outcome # "open_raises" THEN QrSize ELSE qr_size)
          /\ qr_y' = (IF outcome \in {"ok", "paste_raises"}
                      THEN (CARD_HEIGHT - QrSize) \div 2 ELSE qr_y)
          /\ pasted' = (outcome = "ok")
          /\ log' = (IF outcome = "ok" THEN log
                     ELSE Append(log, "Error loading QR code"))
    /\ pc' = "qr_pos"
    /\ UNCHANGED <<fn, text, card_number, bg_color, text_color, face, font_fail,
                   fonts, words, lines, current_line, idx, url_width, drawn,
                   saved, err, csvVars>>

\* line 149: qr_y = (CARD_HEIGHT - qr_size) // 2; reading the local qr_size
\* before it was assigned raises UnboundLocalError
QrPosition ==
    /\ pc = "qr_pos"
    /\ IF qr_size_bound
       THEN /\ qr_y' = (CARD_HEIGHT - qr_size) \div 2
            /\ pc' = "title"
            /\ err' = err
       ELSE /\ qr_y' = qr_y
            /\ pc' = "error"
            /\ err' = "UnboundLocalError"
    /\ UNCHANGED <<fn, text, card_number, bg_color, text_color, face, font_fail,
                   fonts, words, lines, current_line, idx, qr_size, qr_size_bound,
                   pasted, url_width, drawn, log, saved, csvVars>>

\* lines 152-160: the two title words, centred, positioned from the bottom up
TitleAt(title_words, font, y0) ==
    [i \in 1..Len(title_words) |->
        [x |-> (CARD_WIDTH - TextWidth(title_words[i], font)) \div 2,
         y |-> (y0 - 150) - (Len(title_words) - i) * LineHeight12(TITLE_FONT_SIZE),
         s |-> title_words[i], font |-> font, fill |-> RESPONSE_TEXT_COLOR]]

DrawTitle ==
    /\ pc = "title"
    /\ drawn' = drawn \o TitleAt(<<Gameplay, Instructions>>, fonts["title_font"], qr_y)
    /\ pc' = "url"
    /\ UNCHANGED <<fn, text, card_number, bg_color, text_color, face, font_fail,
                   fonts, words, lines, current_line, idx, qr_size, qr_size_bound,
                   qr_y, pasted, url_width, log, saved, err, csvVars>>

\* A line of the URL, centred (lines 189-193, 196-197)
UrlLineAt(line, font, y) ==
    [x |-> (CARD_WIDTH - TextWidth(line, font)) \div 2, y |-> y,
     s |-> line, font |-> font, fill |-> RESPONSE_TEXT_COLOR]

\* lines 163-171 and 194-197: measure the URL; wrap it if it is too wide,
\* draw it as it is otherwise
MeasureUrl ==
    /\ pc = "url"
    /\ url_width' = TextWidth(text, fonts["url_font"])
    /\ IF url_width' > TEXT_BOX_WIDTH
       THEN /\ lines' = <<>>
            /\ current_line' = <<>>
            /\ idx' = 1
            /\ pc' = "url_wrap"
            /\ drawn' = drawn
       ELSE /\ drawn' = Append(drawn, UrlLineAt(text, fonts["url_font"],
                                                qr_y + qr_size + 80))
            /\ pc' = "save"
            /\ UNCHANGED <<lines, current_line, idx>>
    /\ UNCHANGED <<fn, text, card_number, bg_color, text_color, face, font_fail,
                   fonts, words, qr_size, qr_size_bound, qr_y, pasted, log, saved,
                   err, csvVars>>

\* lines 173-181: one iteration of the loop over the characters of the URL
UrlWrapChar ==
    /\ pc = "url_wrap"
    /\ idx <= Len(text)
    /\ LET st == CharWrapStep([lines |-> lines, current_line |-> current_line],
                              text[idx], fonts["url_font"])
       IN  /\ lines' = st.lines
           /\ current_line' = st.current_line
    /\ idx' = idx + 1
    /\ UNCHANGED <<fn, pc, text, card_number, bg_color, text_color, face, font_fail,
                   fonts, words, qr_size, qr_size_bound, qr_y, pasted, url_width,
                   drawn, log, saved, err, csvVars>>

\* lines 183-193: close the last line and draw the wrapped lines
UrlWrapFlush ==
    /\ pc = "url_wrap"
    /\ idx > Len(text)
    /\ lines' = CharWrapFinish([lines |-> lines, current_line |-> current_line])
    /\ drawn' = drawn \o
          [i \in 1..Len(lines') |->
              UrlLineAt(lines'[i], fonts["url_font"],
                        (qr_y + qr_size + 80) + (i - 1) * LineHeight12(URL_FONT_SIZE))]
    /\ pc' = "save"
    /\ UNCHANGED <<fn, text, card_number, bg_color, text_color, face, font_fail,
                   fonts, words, current_line, idx, qr_size, qr_size_bound, qr_y,
                   pasted, url_width, log, saved, err, csvVars>>

Next ==
    \/ LoadFonts
    \/ SplitText
    \/ WrapWord
    \/ WrapFlush
    \/ DrawLines
    \/ DrawNumber
    \/ LoadQR
    \/ QrPosition
    \/ DrawTitle
    \/ MeasureUrl
    \/ UrlWrapChar
    \/ UrlWrapFlush
    \/ Save

Spec == Init /\ [][Next]_vars

\* ------------------------------------------------- create_card as a whole
RECURSIVE WrapAll(_, _, _)
WrapAll(st, ws, font) ==
    IF ws = <<>> THEN WrapFinish(st)
    ELSE WrapAll(WrapStep(st, Head(ws), font), Tail(ws), font)

\* The image create_card saves (lines 37-84)
CardImage(t, number, bg, fill, fc, fail) ==
    LET fs == FontsLoaded("create_card", fc, fail)
        ls == WrapAll([lines |-> <<>>, current_line |-> <<>>], Split(t),
                      fs["main_font"])
    IN  ImageOf(bg, FALSE,
                Append(DrawLinesAt(ls, fs["main_font"], fill,
                                   LineHeight14(FONT_SIZE_MAIN)),
                       DrawNumberAt(number, fs["number_font"], fill)))

\* ------------------------------------------------------------ process_csv
\* The rows a CSV file is made of here: an empty line, a row of one field,
\* rows of two fields with equal and with different card numbers, a row of
\* three fields.
CsvRows ==
    { <<>>,
      << <<"a">> >>,
      << <<"a", " ", "W">>, <<"a">> >>,
      << <<"W">>, <<"W">> >>,
      << <<"a", "a">>, <<"a">>, <<"W">> >> }

Header == << <<"a">>, <<"W">> >>

RECURSIVE TablesUpTo(_)
TablesUpTo(n) ==
    IF n = 0 THEN {<<Header>>}
    ELSE LET shorter == TablesUpTo(n - 1)
         IN  shorter \cup {Append(t, r) : t \in shorter, r \in CsvRows}

\* The file is empty, or holds a header and up to MaxRows rows
Tables == {<<>>} \cup TablesUpTo(MaxRows)

OutputDir(bg) ==
    IF bg = PROMPT_BG_COLOR THEN "CARD IMAGES/PROMPT" ELSE "CARD IMAGES/RESPONSE"

\* Mutant of OutputPath: the file name does not depend on the card number.
OutputPathFixed(output_dir, number) == <<output_dir, <<".", "p", "n", "g">> >>

\* os.path.join(output_dir, f'{card_number}.png')
OutputPath(output_dir, number) == <<output_dir, number \o <<".", "p", "n", "g">> >>

\* Mutant of DataRows: the header is not skipped.
DataRowsWithHeader(t) == t

\* next(reader); rows = list(reader)
DataRows(t) == Tail(t)

InitCsv ==
    /\ fn = "process_csv"
    /\ pc = "read"
    /\ table \in Tables
    /\ workers \in 1..MaxWorkers
    /\ bg_color \in {PROMPT_BG_COLOR, RESPONSE_BG_COLOR}
    /\ text_color = (IF bg_color = PROMPT_BG_COLOR THEN PROMPT_TEXT_COLOR
                     ELSE RESPONSE_TEXT_COLOR)
    /\ face = 1
    /\ font_fail \in 0..1
    /\ rows = <<>> /\ task = <<>> /\ image = <<>> /\ files = <<>> /\ writes = <<>>
    /\ text = <<>> /\ card_number = <<>> /\ fonts = <<>>
    /\ words = <<>> /\ lines = <<>> /\ current_line = <<>> /\ idx = 0
    /\ qr_size = 0 /\ qr_size_bound = FALSE /\ qr_y = 0 /\ pasted = FALSE
    /\ url_width = 0
    /\ drawn = <<>> /\ log = <<>> /\ saved = <<>> /\ err = "none"

csvFixed == <<fn, text, card_number, bg_color, text_color, face, font_fail, fonts,
              words, lines, current_line, idx, qr_size, qr_size_bound, qr_y,
              pasted, url_width, drawn, log, saved>>

\* lines 210-220: make the directory, read the file, skip the header; next()
\* on an empty file raises StopIteration
ReadCsv ==
    /\ pc = "read"
    /\ IF table = <<>>
       THEN /\ pc' = "error"
            /\ err' = "StopIteration"
            /\ UNCHANGED <<rows, task, image, writes>>
       ELSE /\ rows' = DataRows(table)
            /\ task' = [i \in 1..Len(rows') |-> "pending"]
            /\ image' = [i \in 1..Len(rows') |-> <<>>]
            /\ writes' = [i \in 1..Len(rows') |-> <<>>]
            /\ pc' = "map"
            /\ err' = err
    /\ UNCHANGED <<table, files, workers, csvFixed>>

Running == {i \in 1..Len(task) : task[i] = "running"}

\* lines 202-207 up to image.save, in a free worker: a row of fewer than two
\* fields is skipped, any other is rendered
TaskRender(i) ==
    /\ pc = "map"
    /\ task[i] = "pending"
    /\ Cardinality(Running) < workers
    /\ IF Len(rows[i]) >= 2
       THEN /\ image' = [image EXCEPT ![i] =
                   <<CardImage(rows[i][1], rows[i][2], bg_color, text_color,
                               face, font_fail)>>]
            /\ task' = [task EXCEPT ![i] = "running"]
       ELSE /\ image' = image
            /\ task' = [task EXCEPT ![i] = "done"]
    /\ UNCHANGED <<pc, err, table, rows, files, writes, workers, csvFixed>>

\* line 84 in a worker: image.save(output_path); an unwritable path raises,
\* which ends the task and is re-raised by pool.map
TaskSave(i) ==
    /\ pc = "map"
    /\ task[i] = "running"
    /\ \E writable \in BOOLEAN :
          IF writable
          THEN LET path == OutputPath(OutputDir(bg_color), rows[i][2])
               IN  /\ files' = [q \in DOMAIN files \cup {path} |->
                                   IF q = path THEN image[i][1] ELSE files[q]]
                   /\ writes' = [writes EXCEPT ![i] =
                                   Append(@, [path |-> path, image |-> image[i][1]])]
                   /\ task' = [task EXCEPT ![i] = "done"]
          ELSE /\ task' = [task EXCEPT ![i] = "failed"]
               /\ UNCHANGED <<files, writes>>
    /\ UNCHANGED <<pc, err, table, rows, image, workers, csvFixed>>

\* lines 223-224: pool.map returns once every task has ended, and raises the
\* exception of a task that failed
PoolJoin ==
    /\ pc = "map"
    /\ \A i \in 1..Len(task) : task[i] \in {"done", "failed"}
    /\ IF \E i \in 1..Len(task) : task[i] = "failed"
       THEN pc' = "error" /\ err' = "OSError"
       ELSE pc' = "done" /\ err' = err
    /\ UNCHANGED <<table, rows, task, image, files, writes, workers, csvFixed>>

NextCsv ==
    \/ ReadCsv
    \/ \E i \in 1..Len(task) : TaskRender(i)
    \/ \E i \in 1..Len(task) : TaskSave(i)
    \/ PoolJoin

SpecCsv == InitCsv /\ [][NextCsv]_vars

\* ===================================================== properties (Spec)
\* create_card is past its wrap loop and the closing of the last line
PostWrap == fn = "create_card" /\ pc \in {"draw", "number", "save", "done", "error"}

\* create_instruction_card is past the drawing of the URL
PostUrl == fn = "create_instruction_card"
           /\ (pc \in {"save", "done"} \/ (pc = "error" /\ err = "OSError"))

RECURSIVE FlatWords(_)
FlatWords(ls) == IF ls = <<>> THEN <<>> ELSE Split(Head(ls)) \o FlatWords(Tail(ls))

RECURSIVE Flatten(_)
Flatten(ls) == IF ls = <<>> THEN <<>> ELSE Head(ls) \o Flatten(Tail(ls))

LineWidth(line) == TextWidth(line, fonts["main_font"])

\* C1: the words of the produced lines, taken in line order, are exactly the
\* words of the text (text.split()): none split, dropped, duplicated or
\* reordered.  During the loop the lines closed so far plus the open line
\* hold exactly the words consumed so far.
C1_WordsPreserved ==
    /\ (fn = "create_card" /\ pc = "wrap")
          => FlatWords(lines) \o current_line = SubSeq(words, 1, idx - 1)
    /\ PostWrap
          => /\ FlatWords(lines) = Split(text)
             /\ \A i \in 1..Len(lines) : lines[i] = Join(Split(lines[i]))

C1_Witness ==
    PostWrap /\ pc = "done" /\ Len(lines) >= 2 /\ Len(words) > Len(lines)

\* C2: a produced line wider than the budget consists of exactly one word
\* (which alone is wider than the budget); a line of two or more words fits.
C2_WidthWithinBudget ==
    fn = "create_card"
        => \A i \in 1..Len(lines) :
              LineWidth(lines[i]) > TEXT_BOX_WIDTH => Len(Split(lines[i])) = 1

C2_Witness ==
    /\ PostWrap /\ pc = "done"
    /\ \E i \in 1..Len(lines) : LineWidth(lines[i]) > TEXT_BOX_WIDTH
    /\ \E i \in 1..Len(lines) : Len(Split(lines[i])) >= 2

\* C9: greedy-maximal: a line followed by another could not have taken the
\* first word of the next line: joined by one space they exceed the budget.
C9_GreedyMaximal ==
    PostWrap
        => \A i \in 1..(Len(lines) - 1) :
              LineWidth(lines[i] \o <<" ">> \o Split(lines[i + 1])[1]) > TEXT_BOX_WIDTH

C9_Witness ==
    /\ PostWrap /\ pc = "done" /\ Len(lines) >= 2
    /\ \E i \in 1..(Len(lines) - 1) :
          /\ Len(Split(lines[i])) >= 2
          /\ LineWidth(lines[i + 1]) <= TEXT_BOX_WIDTH

Last(sq) == sq[Len(sq)]

RECURSIVE TrailingSpaces(_)
TrailingSpaces(s) ==
    IF s = <<>> \/ Last(s) # " " THEN 0
    ELSE 1 + TrailingSpaces(SubSeq(s, 1, Len(s) - 1))

\* C7 as amended: the last word of the text is the last word of the last
\* produced line; whitespace at the ends of the text is not retained: no
\* produced line begins or ends with whitespace.
C7_LastWordKept ==
    PostWrap
        => /\ Split(text) # <<>>
                 => /\ lines # <<>>
                    /\ Last(Split(Last(lines))) = Last(Split(text))
           /\ \A i \in 1..Len(lines) :
                 lines[i] # <<>> /\ Head(lines[i]) # " " /\ Last(lines[i]) # " "

C7_Witness ==
    /\ PostWrap /\ pc = "done" /\ Len(lines) >= 2
    /\ TrailingSpaces(text) >= 1

\* C7 as stated: the last word is kept and the whitespace at the end of the
\* text is retained at the end of the produced lines.
C7_TrailingWhitespaceRetained ==
    PostWrap
        => /\ Split(text) # <<>>
                 => /\ lines # <<>>
                    /\ Last(Split(Last(lines))) = Last(Split(text))
           /\ TrailingSpaces(text) =
                 (IF lines = <<>> THEN 0 ELSE TrailingSpaces(Last(lines)))

\* C8: no empty line is ever produced; a text without words gives zero lines,
\* and its card still gets the corner label and is saved (only an unwritable
\* output path makes image.save raise); there are at most as many lines as
\* words.
C8_EmptyText ==
    fn = "create_card"
        => /\ \A i \in 1..Len(lines) : lines[i] # <<>>
           /\ Len(lines) <= Len(words)
           /\ (PostWrap /\ Split(text) = <<>>)
                 => /\ lines = <<>>
                    /\ pc \in {"save", "done", "error"}
                          => drawn = <<DrawNumberAt(card_number, fonts["number_font"],
                                                     text_color)>>
                    /\ pc = "error" => err = "OSError"
                    /\ pc = "done" => saved = <<ImageOf(bg_color, FALSE, drawn)>>

C8_Witness ==
    /\ PostWrap /\ pc = "done" /\ Split(text) = <<>> /\ text # <<>>
    /\ saved # <<>>

\* The strings of the draw.text calls that follow the two title words
DrawnUrl == [i \in 1..(Len(drawn) - 2) |-> drawn[i + 2].s]

\* C4: a URL wider than the budget is drawn as the lines of the character
\* wrap, whose concatenation is the URL; a URL that fits is drawn as the one
\* unmodified line.  During the loop the closed lines plus the open line are
\* the characters consumed so far.
C4_UrlPreserved ==
    /\ (fn = "create_instruction_card" /\ pc = "url_wrap")
          => Flatten(lines) \o current_line = SubSeq(text, 1, idx - 1)
    /\ PostUrl
          => IF url_width > TEXT_BOX_WIDTH
             THEN Flatten(lines) = text /\ DrawnUrl = lines
             ELSE DrawnUrl = <<text>>

C4_Witness ==
    /\ PostUrl /\ pc = "done"
    /\ url_width > TEXT_BOX_WIDTH
    /\ Len(lines) >= 3
    /\ \E i \in 1..Len(lines) : Len(lines[i]) >= 2

\* The QR image failed to load: the except branch of lines 144-146 ran
QrFailed == fn = "create_instruction_card"
            /\ \E i \in 1..Len(log) : log[i] = "Error loading QR code"

\* C3 as stated: after a failed QR load the function does not end in an
\* error (other than an unwritable output path) and, once done, has saved
\* the card with the title and the URL drawn and no QR graphic.
C3_QrFailureStillSaves ==
    QrFailed
        => /\ err # "UnboundLocalError"
           /\ pc = "done"
                 => /\ saved = <<ImageOf(bg_color, FALSE, drawn)>>
                    /\ Len(drawn) >= 3
                    /\ drawn[1].s = Gameplay /\ drawn[2].s = Instructions

\* C6: once the font loading step is over with a failed truetype call, every
\* font of the function is the built-in default font and the diagnostic has
\* been printed; everything drawn is drawn with the default font; the render
\* goes on step by step until it saves or ends in an error that is not the
\* font's (line 149's UnboundLocalError, an unwritable output path).
C6_FontFallback ==
    (pc # "fonts" /\ font_fail # 0)
        => /\ \A n \in DOMAIN fonts : fonts[n] = LoadDefault
           /\ \E i \in 1..Len(log) : log[i] = FontMessage(fn)
           /\ \A i \in 1..Len(drawn) : drawn[i].font = LoadDefault
           /\ pc \notin {"done", "error"} => ENABLED Next
           /\ pc = "done" => saved = <<ImageOf(bg_color, pasted, drawn)>>
           /\ pc = "error"
                 => \/ err = "OSError"
                    \/ err = "UnboundLocalError" /\ ~qr_size_bound

C6_Witness ==
    /\ pc = "done" /\ font_fail = 2 /\ fn = "create_card"
    /\ Len(lines) >= 2 /\ Len(drawn) >= 3 /\ saved # <<>>

\* ================================================== properties (SpecCsv)
Renders(row) == Len(row) >= 2

PngName(number) == number \o <<".", "p", "n", "g">>

\* C5: when process_csv has returned normally, the tasks are the rows after
\* the header, all ended; a row of two or more fields has written exactly
\* one file, <output_dir>/<row[1]>.png, holding the card of (row[0], row[1]);
\* a row of fewer fields has written nothing; no other file exists.
C5_BatchWrites ==
    (fn = "process_csv" /\ pc = "done")
        => /\ Len(rows) = Len(table) - 1
           /\ \A i \in 1..Len(rows) :
                 LET row == table[i + 1]
                 IN  /\ rows[i] = row
                     /\ task[i] = "done"
                     /\ IF Renders(row)
                        THEN writes[i] =
                               << [path |-> <<OutputDir(bg_color), PngName(row[2])>>,
                                   image |-> CardImage(row[1], row[2], bg_color,
                                                       text_color, face, font_fail)] >>
                        ELSE writes[i] = <<>>
           /\ DOMAIN files =
                 { <<OutputDir(bg_color), PngName(table[k][2])>> :
                       k \in {j \in 2..Len(table) : Renders(table[j])} }

C5_Witness ==
    /\ fn = "process_csv" /\ pc = "done"
    /\ \E i \in 1..Len(rows) : Len(rows[i]) = 1
    /\ \E i \in 1..Len(rows) : Len(rows[i]) = 3
    /\ \E i \in 1..Len(rows) : Len(rows[i]) = 2

DistinctIds ==
    \A i, j \in 1..Len(rows) :
        (i # j /\ Renders(rows[i]) /\ Renders(rows[j])) => rows[i][2] # rows[j][2]

\* The files left by running the tasks one after the other in row order
RECURSIVE SequentialFiles(_, _)
SequentialFiles(i, fs) ==
    IF i > Len(rows) THEN fs
    ELSE IF ~Renders(rows[i]) THEN SequentialFiles(i + 1, fs)
    ELSE LET path == OutputPath(OutputDir(bg_color), rows[i][2])
             img == CardImage(rows[i][1], rows[i][2], bg_color, text_color,
                              face, font_fail)
         IN  SequentialFiles(i + 1,
                 [q \in DOMAIN fs \cup {path} |-> IF q = path THEN img ELSE fs[q]])

\* C10: a task writes only the path of its own row; when the card numbers are
\* pairwise distinct no two tasks write the same path, a file written by a
\* task is never overwritten by another, and after a normal return the files
\* are those of the sequential run, whatever the order the tasks ran in.
C10_TasksIndependent ==
    fn = "process_csv"
        => /\ \A i \in 1..Len(writes) : \A k \in 1..Len(writes[i]) :
                 writes[i][k].path = OutputPath(OutputDir(bg_color), rows[i][2])
           /\ DistinctIds
                 => /\ \A i, j \in 1..Len(writes) :
                          \A k \in 1..Len(writes[i]) : \A l \in 1..Len(writes[j]) :
                              i # j => writes[i][k].path # writes[j][l].path
                    /\ \A i \in 1..Len(writes) : \A k \in 1..Len(writes[i]) :
                          files[writes[i][k].path] = writes[i][k].image
                    /\ pc = "done" => files = SequentialFiles(1, <<>>)

C10_Witness ==
    /\ fn = "process_csv" /\ pc = "done" /\ workers >= 2 /\ DistinctIds
    /\ Cardinality({i \in 1..Len(rows) : Renders(rows[i])}) >= 2
    /\ Cardinality(DOMAIN files) >= 2

\* The step-by-step create_card saves the image CardImage computes
CreateCardAgrees ==
    (fn = "create_card" /\ pc = "done")
        => saved = <<CardImage(text, card_number, bg_color, text_color, face,
                               font_fail)>>

====
